---------------------------- MODULE Spec2Model ----------------------------
(***************************************************************************)
(* Model of the structural patch engine of repo_code_changer.py:           *)
(* apply_function_level_changes and the handlers it dispatches to          *)
(* (apply_function_level_change, apply_line_level_change,                  *)
(* apply_python_function_change, apply_brace_delimited_function_change).   *)
(*                                                                         *)
(* Text is a sequence of lexical atoms (one-character strings such as      *)
(* " ", "@", "{", "}", "\n", "\r", and words such as "def", "function",    *)
(* "f").  A file on disk is one flat sequence of atoms; a line buffer is   *)
(* a sequence of lines, each a sequence of atoms that keeps its            *)
(* terminator.  List indices are 0-based as in the source: At(s, i) is     *)
(* s[i] of Python and Slice(s, a, b) is s[a:b].                            *)
(***************************************************************************)
EXTENDS Integers, Sequences, FiniteSets, TLC

VARIABLES
    disk,      \* file name -> [exists, data]: the files under repo_path
    root,      \* the value json.loads gives for json_content, or the parse failure
    linesep,   \* os.linesep of the platform the tool runs on
    pc,        \* position in apply_function_level_changes
    idx,       \* 1-based position of the loop variable `change` in `changes`
    lines,     \* the local `lines` as read (before the handler ran)
    updated,   \* the local `updated_lines`
    orig,      \* history: the disk before the run
    hist,      \* history: the file reads and writes performed, in order
    snap,      \* history: the disk at the end of each loop iteration
    max_retries,  \* download_github_repo: the parameter max_retries
    dpc,          \* position in download_github_repo / fetch_zip
    bidx,         \* 1-based position of the loop variable `branch` in branches_to_try
    attempt,      \* fetch_zip: the loop variable `attempt`
    zip_content,  \* the local `zip_content`
    extraction,   \* state of extraction_dir
    log           \* history: the GET requests issued and their responses, in order

\* the variables of apply_function_level_changes
pvars == <<disk, root, linesep, pc, idx, lines, updated, orig, hist, snap>>

\* the variables of download_github_repo
dvars == <<max_retries, dpc, bidx, attempt, zip_content, extraction, log>>

vars == <<pvars, dvars>>

---------------------------------------------------------------------------
(* Python list and string primitives *)

Min2(a, b) == IF a <= b THEN a ELSE b

Max2(a, b) == IF a >= b THEN a ELSE b

Abs(x) == IF x < 0 THEN -x ELSE x

\* s[i], 0-based
At(s, i) == s[i + 1]

\* s[a:b] for a, b >= 0: indices past the end are clamped
Slice(s, a, b) == SubSeq(s, Max2(a, 0) + 1, Min2(b, Len(s)))

\* a deletion that removes one element past the range
DelRangeOneMore(s, a, b) == Slice(s, 0, a) \o Slice(s, b + 1, Len(s))

\* del s[a:b]
DelRange(s, a, b) == Slice(s, 0, a) \o Slice(s, b, Len(s))

\* "".join(list_of_strings), as done by writelines
RECURSIVE Concat(_)
Concat(ss) == IF ss = <<>> THEN <<>> ELSE Head(ss) \o Concat(Tail(ss))

\* characters str.strip() / str.lstrip() / \s treat as whitespace
IsSpace(c) == c \in {" ", "\n", "\r", "\t"}

RECURSIVE LStrip(_)
LStrip(s) == IF s # <<>> /\ IsSpace(Head(s)) THEN LStrip(Tail(s)) ELSE s

RECURSIVE RStrip(_)
RStrip(s) ==
    IF s # <<>> /\ IsSpace(s[Len(s)]) THEN RStrip(SubSeq(s, 1, Len(s) - 1)) ELSE s

Strip(s) == RStrip(LStrip(s))

\* str.startswith
StartsWith(s, p) == Len(s) >= Len(p) /\ SubSeq(s, 1, Len(p)) = p

\* `p in s` for strings: p occurs as a contiguous substring
Contains(s, p) ==
    \E k \in 0..(Len(s) - Len(p)) : SubSeq(s, k + 1, k + Len(p)) = p

\* str.count(c) for a one-character c
RECURSIVE Count(_, _)
Count(s, c) ==
    IF s = <<>> THEN 0
    ELSE (IF Head(s) = c THEN 1 ELSE 0) + Count(Tail(s), c)

\* len(line) - len(line.lstrip())
Indent(line) == Len(line) - Len(LStrip(line))

\* str.splitlines(True): split after "\n", "\r\n" or "\r", keeping the terminator
RECURSIVE SplitFrom(_, _)
SplitFrom(s, cur) ==
    IF s = <<>> THEN (IF cur = <<>> THEN <<>> ELSE <<cur>>)
    ELSE IF Head(s) = "\n" THEN <<cur \o <<"\n">>>> \o SplitFrom(Tail(s), <<>>)
    ELSE IF Head(s) = "\r" THEN
        IF Len(s) >= 2 /\ s[2] = "\n"
        THEN <<cur \o <<"\r", "\n">>>> \o SplitFrom(SubSeq(s, 3, Len(s)), <<>>)
        ELSE <<cur \o <<"\r">>>> \o SplitFrom(Tail(s), <<>>)
    ELSE SplitFrom(Tail(s), cur \o <<Head(s)>>)

splitlines(s) == SplitFrom(s, <<>>)

---------------------------------------------------------------------------
(* Text-mode file I/O: open(..., 'r') / open(..., 'w') with newline=None *)

\* reading: universal newlines, "\r\n" and "\r" both become "\n"
RECURSIVE Translate(_)
Translate(s) ==
    IF s = <<>> THEN <<>>
    ELSE IF Head(s) = "\r" THEN
        IF Len(s) >= 2 /\ s[2] = "\n"
        THEN <<"\n">> \o Translate(SubSeq(s, 3, Len(s)))
        ELSE <<"\n">> \o Translate(Tail(s))
    ELSE <<Head(s)>> \o Translate(Tail(s))

\* a reader opened with newline='': terminators are kept as they are on disk
readlinesRaw(data) == splitlines(data)

\* f.readlines()
readlines(data) == splitlines(Translate(data))

\* writing: every "\n" becomes os.linesep
RECURSIVE Untranslate(_, _)
Untranslate(s, sep) ==
    IF s = <<>> THEN <<>>
    ELSE (IF Head(s) = "\n" THEN sep ELSE <<Head(s)>>) \o Untranslate(Tail(s), sep)

\* f.writelines(updated_lines)
writelines(ls, sep) == Untranslate(Concat(ls), sep)

---------------------------------------------------------------------------
(* JSON values of a change object: [t |-> type tag, v |-> text]            *)
(* t = "missing": the key is absent; "null": JSON null; "str": a string    *)
(* whose text is v; "num": a number whose decimal text is v.               *)

Missing == [t |-> "missing", v |-> <<>>]

Null == [t |-> "null", v |-> <<>>]

Str(s) == [t |-> "str", v |-> s]

Num(a) == [t |-> "num", v |-> <<a>>]

\* change.get(key, None) is None
IsNone(x) == x.t \in {"missing", "null"}

\* truth value of change.get(key, None) in `if x:`
Truthy(x) ==
    CASE x.t = "str" -> x.v # <<>>
      [] x.t = "num" -> x.v # <<"0">>
      [] OTHER -> FALSE

\* result of a handler: the returned list, or an exception leaving the handler
Ok(ls) == [raised |-> FALSE, lines |-> ls]

Raise == [raised |-> TRUE, lines |-> <<>>]

---------------------------------------------------------------------------
(* apply_line_level_change *)

\* [i for i, line in enumerate(lines) if line.strip() == line_code.strip()]
MatchingIndices(ls, line_code) ==
    {i \in 0..(Len(ls) - 1) : Strip(At(ls, i)) = Strip(line_code)}

\* the elements of a set of integers as an ascending list
RECURSIVE Ascending(_)
Ascending(S) ==
    IF S = {} THEN <<>>
    ELSE LET m == CHOOSE x \in S : \A y \in S : x <= y
         IN <<m>> \o Ascending(S \ {m})

\* a minimum search that keeps the later element on equal keys
RECURSIVE MinByLast(_, _, _)
MinByLast(xs, ref, best) ==
    IF xs = <<>> THEN best
    ELSE MinByLast(Tail(xs), ref,
                   IF Abs(Head(xs) - ref) <= Abs(best - ref) THEN Head(xs) ELSE best)

\* min(xs, key=lambda x: abs(x - ref)) continued from the candidate `best`:
\* an element replaces the candidate only when its key is strictly smaller
RECURSIVE MinBy(_, _, _)
MinBy(xs, ref, best) ==
    IF xs = <<>> THEN best
    ELSE MinBy(Tail(xs), ref,
               IF Abs(Head(xs) - ref) < Abs(best - ref) THEN Head(xs) ELSE best)

\* truth value of reference_line_number; lineNumber is [t, n]
RefTruthy(ref) ==
    CASE ref.t = "num" -> ref.n # 0
      [] ref.t = "str" -> TRUE
      [] OTHER -> FALSE

\* a choice that falls back on the last match when no reference is usable
ClosestIdxLast(matching, ref) ==
    LET xs == Ascending(matching)
    IN IF Len(xs) > 1 /\ RefTruthy(ref)
       THEN MinBy(Tail(xs), ref.n - 1, Head(xs))
       ELSE xs[Len(xs)]

\* closest_idx, for a non-empty set of matches and a reference that is no string
ClosestIdx(matching, ref) ==
    LET xs == Ascending(matching)
    IN IF Len(xs) > 1 /\ RefTruthy(ref)
       THEN MinBy(Tail(xs), ref.n - 1, Head(xs))
       ELSE Head(xs)

\* action branches whose 'replace' keeps the line it should replace
LineActionReplaceKeeps(ls, i, action, new_code) ==
    CASE action = "insert after" ->
           IF ~Truthy(new_code) THEN Ok(ls)
           ELSE IF new_code.t # "str" THEN Raise
           ELSE Ok(Slice(ls, 0, i + 1) \o splitlines(new_code.v)
                   \o Slice(ls, i + 1, Len(ls)))
      [] action = "delete" -> Ok(DelRange(ls, i, i + 1))
      [] action \in {"insert before", "replace"} ->
           IF ~Truthy(new_code) THEN Ok(ls)
           ELSE IF new_code.t # "str" THEN Raise
           ELSE Ok(Slice(ls, 0, i) \o splitlines(new_code.v) \o Slice(ls, i, Len(ls)))
      [] OTHER -> Ok(ls)

\* action branches whose 'replace' removes the line before it looks at the code
LineActionReplaceDeletes(ls, i, action, new_code) ==
    CASE action = "insert before" ->
           IF ~Truthy(new_code) THEN Ok(ls)
           ELSE IF new_code.t # "str" THEN Raise
           ELSE Ok(Slice(ls, 0, i) \o splitlines(new_code.v) \o Slice(ls, i, Len(ls)))
      [] action = "insert after" ->
           IF ~Truthy(new_code) THEN Ok(ls)
           ELSE IF new_code.t # "str" THEN Raise
           ELSE Ok(Slice(ls, 0, i + 1) \o splitlines(new_code.v)
                   \o Slice(ls, i + 1, Len(ls)))
      [] action = "delete" -> Ok(DelRange(ls, i, i + 1))
      [] action = "replace" ->
           IF ~Truthy(new_code) THEN Ok(DelRange(ls, i, i + 1))
           ELSE IF new_code.t # "str" THEN Raise
           ELSE Ok(Slice(ls, 0, i) \o splitlines(new_code.v)
                   \o Slice(ls, i + 1, Len(ls)))
      [] OTHER -> Ok(ls)

\* the action branches of apply_line_level_change at closest_idx
LineAction(ls, i, action, new_code) ==
    CASE action = "insert before" ->
           IF ~Truthy(new_code) THEN Ok(ls)
           ELSE IF new_code.t # "str" THEN Raise
           ELSE Ok(Slice(ls, 0, i) \o splitlines(new_code.v) \o Slice(ls, i, Len(ls)))
      [] action = "insert after" ->
           IF ~Truthy(new_code) THEN Ok(ls)
           ELSE IF new_code.t # "str" THEN Raise
           ELSE Ok(Slice(ls, 0, i + 1) \o splitlines(new_code.v)
                   \o Slice(ls, i + 1, Len(ls)))
      [] action = "delete" -> Ok(DelRange(ls, i, i + 1))
      [] action = "replace" ->
           IF ~Truthy(new_code) THEN Ok(ls)
           ELSE IF new_code.t # "str" THEN Raise
           ELSE Ok(Slice(ls, 0, i) \o splitlines(new_code.v)
                   \o Slice(ls, i + 1, Len(ls)))
      [] OTHER -> Ok(ls)

apply_line_level_change(ls, action, new_code, line_code, ref) ==
    IF ~Truthy(line_code) THEN Ok(ls)
    \* a number has no .strip(): AttributeError at the first line compared
    ELSE IF line_code.t # "str" THEN (IF ls = <<>> THEN Ok(ls) ELSE Raise)
    ELSE LET matching == MatchingIndices(ls, line_code.v)
         IN IF matching = {} THEN Ok(ls)
            \* a string lineNumber: TypeError in reference_line_number - 1
            ELSE IF Cardinality(matching) > 1 /\ ref.t = "str" THEN Raise
            ELSE LineAction(ls, ClosestIdx(matching, ref), action, new_code)

---------------------------------------------------------------------------
(* apply_python_function_change *)

\* func_def_pattern.match(stripped): ^def\s+<name>\s*\(
PyDefMatch(stripped, name) ==
    /\ stripped # <<>>
    /\ Head(stripped) = "def"
    /\ LET r1 == Tail(stripped)
           r2 == LStrip(r1)
       IN /\ Len(r2) < Len(r1)
          /\ StartsWith(r2, name)
          /\ LET r3 == LStrip(SubSeq(r2, Len(name) + 1, Len(r2)))
             IN r3 # <<>> /\ Head(r3) = "("

\* index of the first line matching the definition pattern, -1 for None
PyDefIdx(ls, name) ==
    LET S == {i \in 0..(Len(ls) - 1) : PyDefMatch(Strip(At(ls, i)), name)}
    IN IF S = {} THEN -1 ELSE CHOOSE i \in S : \A k \in S : i <= k

\* a walk that takes every non-blank line above the definition for a decorator
RECURSIVE DecoratorWalkAnyLine(_, _, _)
DecoratorWalkAnyLine(ls, j, found) ==
    IF j >= 0 /\ Strip(At(ls, j)) # <<>>
    THEN DecoratorWalkAnyLine(ls, j - 1, j)
    ELSE found

\* the while loop over the lines above the definition: decorator_start after
\* the loop has looked at line j, -1 for None
RECURSIVE DecoratorWalk(_, _, _)
DecoratorWalk(ls, j, found) ==
    IF j >= 0 /\ StartsWith(Strip(At(ls, j)), <<"@">>)
    THEN DecoratorWalk(ls, j - 1, j)
    ELSE found

decorator_start(ls, name) == DecoratorWalk(ls, PyDefIdx(ls, name) - 1, -1)

\* start_idx after step 1, for a function that was found
PyStart(ls, name) ==
    IF decorator_start(ls, name) # -1 THEN decorator_start(ls, name)
    ELSE PyDefIdx(ls, name)

\* a forward walk that begins on the start line itself
PyScanFromBug(start_idx) == start_idx

\* first index of range(start_idx + 1, len(lines))
PyScanFrom(start_idx) == start_idx + 1

\* end_idx after step 2
PyEnd(ls, start_idx) ==
    LET func_indent == Indent(At(ls, start_idx))
        S == {j \in PyScanFrom(start_idx)..(Len(ls) - 1) :
                 /\ Strip(At(ls, j)) # <<>>
                 /\ Indent(At(ls, j)) <= func_indent
                 /\ ~StartsWith(Strip(At(ls, j)), <<"@">>)}
    IN IF S = {} THEN Len(ls) - 1
       ELSE (CHOOSE j \in S : \A k \in S : j <= k) - 1

apply_python_function_change(ls, func_name, action, code) ==
    \* re.escape of a value that is no string: TypeError
    IF func_name.t # "str" THEN Raise
    ELSE IF PyDefIdx(ls, func_name.v) = -1 THEN Ok(ls)
    ELSE
      LET start_idx == PyStart(ls, func_name.v)
          end_idx == PyEnd(ls, start_idx)
          ds == decorator_start(ls, func_name.v)
          insertion_idx == IF ds # -1 THEN ds ELSE start_idx
      IN CASE action = "insert before" ->
                IF ~Truthy(code) THEN Ok(ls)
                ELSE IF code.t # "str" THEN Raise
                ELSE Ok(Slice(ls, 0, insertion_idx) \o splitlines(code.v)
                        \o Slice(ls, insertion_idx, Len(ls)))
           [] action = "insert after" ->
                IF ~Truthy(code) THEN Ok(ls)
                ELSE IF code.t # "str" THEN Raise
                ELSE Ok(Slice(ls, 0, end_idx + 1) \o splitlines(code.v)
                        \o Slice(ls, end_idx + 1, Len(ls)))
           [] action = "delete" -> Ok(DelRange(ls, start_idx, end_idx + 1))
           [] action = "replace" ->
                IF ~Truthy(code) THEN Ok(ls)
                ELSE IF code.t # "str" THEN Raise
                ELSE Ok(Slice(ls, 0, start_idx) \o splitlines(code.v)
                        \o Slice(ls, end_idx + 1, Len(ls)))
           [] OTHER -> Ok(ls)

---------------------------------------------------------------------------
(* apply_brace_delimited_function_change (the statements before the first  *)
(* unconditional return; the copy of the body that follows it never runs)  *)

\* pattern = f"function {func_name}("
BracePattern(func_name) == <<"function", " ">> \o func_name.v \o <<"(">>

\* start_idx: first line containing the pattern, -1 for None
BraceStart(ls, func_name) ==
    LET S == {i \in 0..(Len(ls) - 1) : Contains(At(ls, i), BracePattern(func_name))}
    IN IF S = {} THEN -1 ELSE CHOOSE i \in S : \A k \in S : i <= k

\* the test that ends the scan: brace_depth == 0
DepthClosed(brace_depth) == brace_depth = 0

\* a scan that ends at the first line holding a closing brace
RECURSIVE BraceScanFirstClose(_, _, _, _, _)
BraceScanFirstClose(ls, j, brace_depth, found_open_brace, start_idx) ==
    IF j >= Len(ls) THEN start_idx
    ELSE LET found == found_open_brace \/ Count(At(ls, j), "{") > 0
         IN IF found /\ Count(At(ls, j), "}") > 0 THEN j
            ELSE BraceScanFirstClose(ls, j + 1, brace_depth, found, start_idx)

\* the for loop over range(start_idx, len(lines)), at index j with the loop's
\* brace_depth and found_open_brace; func_end_idx keeps its initial value
\* start_idx when the loop ends without break
RECURSIVE BraceScan(_, _, _, _, _)
BraceScan(ls, j, brace_depth, found_open_brace, start_idx) ==
    IF j >= Len(ls) THEN start_idx
    ELSE LET opens == Count(At(ls, j), "{")
             closes == Count(At(ls, j), "}")
             found == found_open_brace \/ opens > 0
             d1 == brace_depth + opens
             d2 == IF closes > 0 /\ found THEN d1 - closes ELSE d1
         IN IF found /\ DepthClosed(d2) THEN j
            ELSE BraceScan(ls, j + 1, d2, found, start_idx)

\* func_end_idx
BraceEnd(ls, start_idx) == BraceScan(ls, start_idx, 0, FALSE, start_idx)

apply_brace_delimited_function_change(ls, func_name, action, code) ==
    IF BraceStart(ls, func_name) = -1 THEN Ok(ls)
    ELSE
      LET start_idx == BraceStart(ls, func_name)
          func_end_idx == BraceEnd(ls, start_idx)
      IN CASE action = "insert before" ->
                IF IsNone(code) THEN Ok(ls)
                ELSE IF code.t # "str" THEN Raise
                ELSE Ok(Slice(ls, 0, start_idx) \o splitlines(code.v)
                        \o Slice(ls, start_idx, Len(ls)))
           [] action = "insert after" ->
                IF IsNone(code) THEN Ok(ls)
                ELSE IF code.t # "str" THEN Raise
                ELSE Ok(Slice(ls, 0, func_end_idx + 1) \o splitlines(code.v)
                        \o Slice(ls, func_end_idx + 1, Len(ls)))
           [] action = "delete" -> Ok(DelRange(ls, start_idx, func_end_idx + 1))
           [] action = "replace" ->
                IF IsNone(code) THEN Ok(ls)
                ELSE IF code.t # "str" THEN Raise
                ELSE LET rest == DelRange(ls, start_idx, func_end_idx + 1)
                     IN Ok(Slice(rest, 0, start_idx) \o splitlines(code.v)
                           \o Slice(rest, start_idx, Len(rest)))
           [] OTHER -> Ok(ls)

---------------------------------------------------------------------------
(* apply_function_level_change *)

apply_function_level_change(ls, func_name, action, code, file_extension) ==
    IF Truthy(func_name) THEN
        IF file_extension = ".py"
        THEN apply_python_function_change(ls, func_name, action, code)
        ELSE IF file_extension \in {".php", ".js"}
        THEN apply_brace_delimited_function_change(ls, func_name, action, code)
        ELSE Ok(ls)
    ELSE apply_line_level_change(ls, action, code, code, [t |-> "missing", n |-> 0])

---------------------------------------------------------------------------
(* apply_function_level_changes *)

\* A change object: [kind |-> "dict", file, functionName, lineCode, lineNumber,
\* action, code]; an array element that is no JSON object has kind "other".
\* A path is a sequence of atoms whose last atom may be the extension.

ExtAtoms == {".py", ".js", ".php", ".txt"}

\* os.path.splitext(file_rel)[1]
splitext1(path) ==
    IF Len(path) >= 2 /\ path[Len(path)] \in ExtAtoms THEN path[Len(path)] ELSE ""

\* str.lower() on the action words
lower(a) ==
    CASE a = "Delete" -> "delete"
      [] a = "REPLACE" -> "replace"
      [] OTHER -> a

\* a check that also lets a single JSON object through
IsListLenient(r) == r.kind \in {"array", "object"}

\* isinstance(changes, list)
IsList(r) == r.kind = "array"

changes == root.items

change == changes[idx]

\* all(k in change for k in ["file", "action"])
HasRequiredKeys(c) == c.file.t # "missing" /\ c.action.t # "missing"

\* change["action"].lower() or os.path.join(repo_path, file_rel) raises
FieldRaises(c) == c.action.t # "str" \/ c.file.t # "str"

\* a path is a sequence of atoms; a directory atom ends with "/"
IsDirAtom(a) == a \in {"s/"}

\* os.path.basename
RECURSIVE basename(_)
basename(path) ==
    IF path # <<>> /\ IsDirAtom(Head(path)) THEN basename(Tail(path)) ELSE path

\* a join that keeps only the file name of file_rel
TargetFileBasename(c) == basename(c.file.v)

\* target_file = os.path.join(repo_path, file_rel), relative to the repo root
TargetFile(c) == c.file.v

\* os.path.exists(target_file)
Exists(d, c) == TargetFile(c) \in DOMAIN d

\* the file as seen by a reader that ignores earlier writes of this run
DataOfOriginal(d, path) == orig[path].data

\* the bytes open(target_file, 'r') reads
DataOf(d, path) == d[path].data

\* a dispatch that looks at line_code first
ApplyResultLineFirst(ls, c) ==
    IF Truthy(c.lineCode)
    THEN apply_line_level_change(ls, lower(c.action.v[1]), c.code,
                                 c.lineCode, c.lineNumber)
    ELSE apply_function_level_change(ls, c.functionName, lower(c.action.v[1]),
                                     c.code, splitext1(c.file.v))

\* the handler call of the "Apply the change" step, for a change with a target
ApplyResult(ls, c) ==
    IF Truthy(c.functionName)
    THEN apply_function_level_change(ls, c.functionName, lower(c.action.v[1]),
                                     c.code, splitext1(c.file.v))
    ELSE apply_line_level_change(ls, lower(c.action.v[1]), c.code,
                                 c.lineCode, c.lineNumber)

\* func_name or line_code is truthy: one of the two handler calls is made
HasTarget(c) == Truthy(c.functionName) \/ Truthy(c.lineCode)

\* `continue`, or the end of the loop body
NextChange(d) ==
    /\ idx' = idx + 1
    /\ pc' = "loop"
    /\ snap' = Append(snap, d)

\* json.loads raises JSONDecodeError
ParseError ==
    /\ pc = "start"
    /\ root.kind = "invalid"
    /\ pc' = "done"
    /\ UNCHANGED <<dvars, disk, root, linesep, idx, lines, updated, orig, hist, snap>>

\* the JSON root is no array
NotAList ==
    /\ pc = "start"
    /\ root.kind # "invalid"
    /\ ~IsList(root)
    /\ pc' = "done"
    /\ UNCHANGED <<dvars, disk, root, linesep, idx, lines, updated, orig, hist, snap>>

EnterLoop ==
    /\ pc = "start"
    /\ root.kind # "invalid"
    /\ IsList(root)
    /\ pc' = "loop"
    /\ UNCHANGED <<dvars, disk, root, linesep, idx, lines, updated, orig, hist, snap>>

SkipNotDict ==
    /\ pc = "loop"
    /\ idx <= Len(changes)
    /\ change.kind # "dict"
    /\ NextChange(disk)
    /\ UNCHANGED <<dvars, disk, root, linesep, lines, updated, orig, hist>>

SkipIncomplete ==
    /\ pc = "loop"
    /\ idx <= Len(changes)
    /\ change.kind = "dict"
    /\ ~HasRequiredKeys(change)
    /\ NextChange(disk)
    /\ UNCHANGED <<dvars, disk, root, linesep, lines, updated, orig, hist>>

\* AttributeError / TypeError between `file_rel = ...` and os.path.join
FieldError ==
    /\ pc = "loop"
    /\ idx <= Len(changes)
    /\ change.kind = "dict"
    /\ HasRequiredKeys(change)
    /\ FieldRaises(change)
    /\ pc' = "raised"
    /\ UNCHANGED <<dvars, disk, root, linesep, idx, lines, updated, orig, hist, snap>>

FileMissing ==
    /\ pc = "loop"
    /\ idx <= Len(changes)
    /\ change.kind = "dict"
    /\ HasRequiredKeys(change)
    /\ ~FieldRaises(change)
    /\ ~Exists(disk, change)
    /\ NextChange(disk)
    /\ UNCHANGED <<dvars, disk, root, linesep, lines, updated, orig, hist>>

\* open/readlines raises (the path is a directory): caught, next change
ReadError ==
    /\ pc = "loop"
    /\ idx <= Len(changes)
    /\ change.kind = "dict"
    /\ HasRequiredKeys(change)
    /\ ~FieldRaises(change)
    /\ Exists(disk, change)
    /\ disk[TargetFile(change)].kind # "text"
    /\ NextChange(disk)
    /\ UNCHANGED <<dvars, disk, root, linesep, lines, updated, orig, hist>>

ReadFile ==
    /\ pc = "loop"
    /\ idx <= Len(changes)
    /\ change.kind = "dict"
    /\ HasRequiredKeys(change)
    /\ ~FieldRaises(change)
    /\ Exists(disk, change)
    /\ disk[TargetFile(change)].kind = "text"
    /\ lines' = readlines(DataOf(disk, TargetFile(change)))
    /\ hist' = Append(hist, [k |-> idx, op |-> "read", file |-> TargetFile(change),
                             data |-> DataOf(disk, TargetFile(change))])
    /\ pc' = "apply"
    /\ UNCHANGED <<dvars, disk, root, linesep, idx, updated, orig, snap>>

\* neither functionName nor lineCode: warning and continue
SkipNoTarget ==
    /\ pc = "apply"
    /\ ~HasTarget(change)
    /\ NextChange(disk)
    /\ UNCHANGED <<dvars, disk, root, linesep, lines, updated, orig, hist>>

\* the handler returns updated_lines
ApplyChange ==
    /\ pc = "apply"
    /\ HasTarget(change)
    /\ ~ApplyResult(lines, change).raised
    /\ updated' = ApplyResult(lines, change).lines
    /\ pc' = "write"
    /\ UNCHANGED <<dvars, disk, root, linesep, idx, lines, orig, hist, snap>>

\* an exception leaves the handler; nothing in the loop body catches it
ApplyError ==
    /\ pc = "apply"
    /\ HasTarget(change)
    /\ ApplyResult(lines, change).raised
    /\ pc' = "raised"
    /\ UNCHANGED <<dvars, disk, root, linesep, idx, lines, updated, orig, hist, snap>>

WriteFile ==
    /\ pc = "write"
    /\ LET d == [disk EXCEPT ![TargetFile(change)].data = writelines(updated, linesep)]
       IN /\ disk' = d
          /\ hist' = Append(hist, [k |-> idx, op |-> "write", file |-> TargetFile(change),
                                   data |-> d[TargetFile(change)].data])
          /\ NextChange(d)
    /\ UNCHANGED <<dvars, root, linesep, lines, updated, orig>>

LoopEnd ==
    /\ pc = "loop"
    /\ idx > Len(changes)
    /\ pc' = "done"
    /\ UNCHANGED <<dvars, disk, root, linesep, idx, lines, updated, orig, hist, snap>>

Next ==
    \/ ParseError
    \/ NotAList
    \/ EnterLoop
    \/ SkipNotDict
    \/ SkipIncomplete
    \/ FieldError
    \/ FileMissing
    \/ ReadError
    \/ ReadFile
    \/ SkipNoTarget
    \/ ApplyChange
    \/ ApplyError
    \/ WriteFile
    \/ LoopEnd

---------------------------------------------------------------------------
(* fetch_zip and download_github_repo *)

\* Bytes and header values are sequences of atoms.  "PK34" is the signature
\* b'PK\x03\x04' of a local file header; "PK56" is the signature of the end of
\* central directory record, with which an archive without entries begins.

None == [t |-> "none", v |-> <<>>]

Bytes(b) == [t |-> "bytes", v |-> b]

\* str.lower() on the atoms of a header value
lowerText(s) ==
    [i \in 1..Len(s) |->
        CASE s[i] = "ZIP" -> "zip"
          [] s[i] = "APPLICATION/" -> "application/"
          [] OTHER -> s[i]]

\* 'zip' in content_type.lower() or r.content.startswith(b'PK\x03\x04')
LooksLikeZip(r) ==
    \/ Contains(lowerText(r.content_type), <<"zip">>)
    \/ StartsWith(r.content, <<"PK34">>)

\* the attempt ends in `return r.content`: no exception, status 200, zip-like
Accepted(r) == r.kind = "response" /\ r.status_code = 200 /\ LooksLikeZip(r)

\* a loop that runs once more than range(max_retries)
AttemptsLeftOneMore(a, m) == a <= m

\* `for attempt in range(max_retries)` has a next element after a attempts
AttemptsLeft(a, m) == a < m

\* truth value of zip_content in `if not zip_content:`
Filled(z) == z.t = "bytes" /\ z.v # <<>>

\* a loop over the branches without `break`
NeverFound(z) == FALSE

\* `if zip_content: break`
FoundZip(z) == z.t = "bytes" /\ z.v # <<>>

branches_to_try == <<"main", "master">>

\* what zipfile.ZipFile makes of the bytes: an archive with entries, an archive
\* without entries, or BadZipFile
ArchiveKind(b) ==
    IF Len(b) >= 2 /\ b[1] = "PK34" THEN "entries"
    ELSE IF b = <<"PK56">> THEN "empty"
    ELSE "bad"

\* outcomes of requests.get(url, timeout=timeout)
Failure == [kind |-> "exception", status_code |-> 0, content_type |-> <<>>,
            content |-> <<>>]

Response(status, ctype, body) ==
    [kind |-> "response", status_code |-> status, content_type |-> ctype,
     content |-> body]

Responses ==
    { Failure,
      Response(404, <<"application/", "zip">>, <<"PK34", "entry">>),
      Response(200, <<"text/", "html">>, <<"html">>),
      Response(200, <<"text/", "html">>, <<"PK56">>),
      Response(200, <<"application/", "zip">>, <<"PK34", "entry">>),
      Response(200, <<>>, <<"PK34", "entry">>),
      Response(200, <<"APPLICATION/", "ZIP">>, <<"html">>),
      Response(200, <<"application/", "zip">>, <<"PK56">>),
      Response(200, <<"application/", "zip">>, <<>>) }

\* the GET of fetch_zip for the current branch, answered by r
Requested(r) == Append(log, [branch |-> branches_to_try[bidx], response |-> r])

\* `for branch in branches_to_try`: the call of fetch_zip for the next branch
DownloadBranch ==
    /\ dpc = "branch"
    /\ bidx <= Len(branches_to_try)
    /\ attempt' = 0
    /\ dpc' = "fetch"
    /\ UNCHANGED <<pvars, max_retries, bidx, zip_content, extraction, log>>

\* an attempt that raises, has a status other than 200 or no zip-like body
FetchRejected ==
    /\ dpc = "fetch"
    /\ AttemptsLeft(attempt, max_retries)
    /\ \E r \in Responses : ~Accepted(r) /\ log' = Requested(r)
    /\ attempt' = attempt + 1
    /\ UNCHANGED <<pvars, max_retries, dpc, bidx, zip_content, extraction>>

\* return r.content
FetchAccepted ==
    /\ dpc = "fetch"
    /\ AttemptsLeft(attempt, max_retries)
    /\ \E r \in Responses :
           /\ Accepted(r)
           /\ log' = Requested(r)
           /\ zip_content' = Bytes(r.content)
    /\ dpc' = "check"
    /\ UNCHANGED <<pvars, max_retries, bidx, attempt, extraction>>

\* return None after the loop of fetch_zip
FetchExhausted ==
    /\ dpc = "fetch"
    /\ ~AttemptsLeft(attempt, max_retries)
    /\ zip_content' = None
    /\ dpc' = "check"
    /\ UNCHANGED <<pvars, max_retries, bidx, attempt, extraction, log>>

BranchBreak ==
    /\ dpc = "check"
    /\ FoundZip(zip_content)
    /\ dpc' = "after"
    /\ UNCHANGED <<pvars, max_retries, bidx, attempt, zip_content, extraction, log>>

BranchContinue ==
    /\ dpc = "check"
    /\ ~FoundZip(zip_content)
    /\ bidx' = bidx + 1
    /\ dpc' = "branch"
    /\ UNCHANGED <<pvars, max_retries, attempt, zip_content, extraction, log>>

BranchesExhausted ==
    /\ dpc = "branch"
    /\ bidx > Len(branches_to_try)
    /\ dpc' = "after"
    /\ UNCHANGED <<pvars, max_retries, bidx, attempt, zip_content, extraction, log>>

\* raise Exception("[ERROR] Failed to download repository ...")
DownloadFailed ==
    /\ dpc = "after"
    /\ ~Filled(zip_content)
    /\ dpc' = "raised"
    /\ UNCHANGED <<pvars, max_retries, bidx, attempt, zip_content, extraction, log>>

\* os.makedirs(extraction_dir) unless it exists
MakeDir ==
    /\ dpc = "after"
    /\ Filled(zip_content)
    /\ extraction' = IF extraction = "absent" THEN "empty" ELSE extraction
    /\ dpc' = "open"
    /\ UNCHANGED <<pvars, max_retries, bidx, attempt, zip_content, log>>

\* zipfile.ZipFile raises BadZipFile
BadZip ==
    /\ dpc = "open"
    /\ ArchiveKind(zip_content.v) = "bad"
    /\ dpc' = "raised"
    /\ UNCHANGED <<pvars, max_retries, bidx, attempt, zip_content, extraction, log>>

\* raise Exception("[ERROR] Zip archive is empty or invalid.")
EmptyZip ==
    /\ dpc = "open"
    /\ ArchiveKind(zip_content.v) = "empty"
    /\ dpc' = "raised"
    /\ UNCHANGED <<pvars, max_retries, bidx, attempt, zip_content, extraction, log>>

\* z.extractall(extraction_dir) and return repo_path
ExtractAll ==
    /\ dpc = "open"
    /\ ArchiveKind(zip_content.v) = "entries"
    /\ extraction' = "extracted"
    /\ dpc' = "done"
    /\ UNCHANGED <<pvars, max_retries, bidx, attempt, zip_content, log>>

NextDownload ==
    \/ DownloadBranch
    \/ FetchRejected
    \/ FetchAccepted
    \/ FetchExhausted
    \/ BranchBreak
    \/ BranchContinue
    \/ BranchesExhausted
    \/ DownloadFailed
    \/ MakeDir
    \/ BadZip
    \/ EmptyZip
    \/ ExtractAll

\* download_github_repo is not running
DownloadIdle ==
    /\ max_retries = 0
    /\ dpc = "idle"
    /\ bidx = 1
    /\ attempt = 0
    /\ zip_content = None
    /\ extraction = "absent"
    /\ log = <<>>

---------------------------------------------------------------------------
(* Initial states: the files under repo_path and the pasted change set *)

MaxLines == 4

MaxBatch == 2

TextFile(data) == [kind |-> "text", data |-> data]

Directory == [kind |-> "dir", data |-> <<>>]

PathPy == <<"a", ".py">>

PathJs == <<"b", ".js">>

PathTxt == <<"c", ".txt">>

PathDir == <<"d">>

PathNone == <<"e", ".js">>

LF == <<"\n">>

CRLF == <<"\r", "\n">>

\* the lines `bodies`, each followed by the terminator `term`
RECURSIVE Join(_, _)
Join(bodies, term) ==
    IF bodies = <<>> THEN <<>> ELSE Head(bodies) \o term \o Join(Tail(bodies), term)

\* all files of at most n lines over a pool of line texts
FilesOver(pool, n) == UNION {[1..k -> pool] : k \in 0..n}

\* files present in every scenario besides the target file
PathPhp == <<"p", ".php">>
PathSub == <<"s/", "c", ".txt">>

BaseDisk ==
    (PathTxt :> TextFile(<<"x", "\n", "y", "\n">>))
    @@ (PathPhp :> TextFile(<<"function", " ", "f", "(", "{", "\n", "}", "\n", "x", "\n">>))
    @@ (PathSub :> TextFile(<<"x", "\n", "z", "\n">>))
    @@ (PathDir :> Directory)

NoRef == [t |-> "missing", n |-> 0]

Ref(n) == [t |-> "num", n |-> n]

Chg(file, fn, lc, ln, action, code) ==
    [kind |-> "dict", file |-> file, functionName |-> fn, lineCode |-> lc,
     lineNumber |-> ln, action |-> action, code |-> code]

\* {"file": file, "functionName": "f", "action": action, "code": code}
FnChg(path, action, code) ==
    Chg(Str(path), Str(<<"f">>), Missing, NoRef, Str(<<action>>), code)

\* {"file": file, "lineCode": "x", "lineNumber": ln, "action": action, "code": code}
LnChg(path, ln, action, code) ==
    Chg(Str(path), Missing, Str(<<"x">>), ln, Str(<<action>>), code)

Array(items) == [kind |-> "array", items |-> items]

\* a delete is pasted twice, so that its second run is part of the behaviour
Runs(c) == IF c.action.v = <<"delete">> THEN Array(<<c, c>>) ELSE Array(<<c>>)

CodeTwo == Str(<<"y", "\n", "z">>)

\* line texts of Python files
PyPool ==
    { <<"@", "c">>, <<"def", " ", "f", "(">>, <<" ", "x">>, <<"x">>, <<>> }

PyChanges ==
    { FnChg(PathPy, "delete", Missing), FnChg(PathPy, "replace", CodeTwo),
      FnChg(PathPy, "insert before", CodeTwo), FnChg(PathPy, "insert after", CodeTwo) }

\* line texts of JavaScript / PHP files
BracePool ==
    { <<"function", " ", "f", "(", "{">>, <<"function", " ", "f", "(">>, <<"{">>,
      <<"}">>, <<"x">>, <<"{", "}", "}">> }

BraceChanges ==
    { FnChg(PathJs, "delete", Missing), FnChg(PathJs, "replace", CodeTwo),
      FnChg(PathJs, "insert before", CodeTwo), FnChg(PathJs, "insert after", CodeTwo) }

\* line texts of files changed by lineCode
LinePool == { <<"x">>, <<" ", "x", " ">>, <<"y">> }

Refs == {NoRef} \cup {Ref(n) : n \in (-1)..(MaxLines + 1)}

LineChanges ==
    { LnChg(PathJs, r, a, c) :
        r \in Refs,
        a \in {"insert before", "insert after", "replace", "delete"},
        c \in {CodeTwo} }

\* elements of pasted arrays, well-formed and not
BatchPool ==
    { FnChg(PathJs, "delete", Missing),
      FnChg(PathJs, "insert before", CodeTwo),
      FnChg(PathJs, "REPLACE", Str(<<"function", " ", "f", "(", "{", "}", "\n">>)),
      LnChg(PathJs, NoRef, "Delete", Missing),
      \* a function and a line that the file does not hold
      Chg(Str(PathJs), Str(<<"g">>), Missing, NoRef, Str(<<"delete">>), Missing),
      Chg(Str(PathJs), Missing, Str(<<"z">>), NoRef, Str(<<"delete">>), Missing),
      \* an extension without a function locator, and a file that does not exist
      FnChg(PathTxt, "delete", Missing),
      FnChg(PathNone, "delete", Missing),
      \* neither functionName nor lineCode
      Chg(Str(PathJs), Missing, Null, NoRef, Str(<<"delete">>), Missing),
      \* "action": 5
      Chg(Str(PathJs), Str(<<"f">>), Missing, NoRef, Num("5"), Missing) }

\* further elements, pasted alone or in front of a well-formed change
ExtraPool ==
    { LnChg(PathJs, Ref(4), "insert after", Str(<<"x", "\r", "\n">>)),
      LnChg(PathTxt, NoRef, "delete", Missing),
      FnChg(PathDir, "delete", Missing),
      \* no "action" key
      Chg(Str(PathJs), Str(<<"f">>), Missing, NoRef, Missing, Missing),
      \* "lineCode": 5
      Chg(Str(PathJs), Missing, Num("5"), NoRef, Str(<<"delete">>), Missing),
      \* "lineNumber": "2"
      Chg(Str(PathJs), Missing, Str(<<"x">>), [t |-> "str", n |-> 0],
          Str(<<"delete">>), Missing),
      \* "code": 5
      FnChg(PathJs, "insert after", Num("5")),
      FnChg(PathPhp, "delete", Missing),
      \* a file in a directory below the root
      LnChg(PathSub, NoRef, "delete", Missing),
      \* both "functionName" and "lineCode"
      Chg(Str(PathJs), Str(<<"f">>), Str(<<"x">>), NoRef, Str(<<"delete">>), Missing),
      \* "functionName": "" next to a lineCode, and both ""
      Chg(Str(PathJs), Str(<<>>), Str(<<"x">>), NoRef, Str(<<"delete">>), Missing),
      Chg(Str(PathJs), Str(<<>>), Str(<<>>), NoRef, Str(<<"delete">>), Missing),
      \* an array element that is no object
      [kind |-> "other", file |-> Missing, functionName |-> Missing,
       lineCode |-> Missing, lineNumber |-> NoRef, action |-> Missing,
       code |-> Missing] }

BatchRoots ==
    {[kind |-> "invalid", items |-> <<>>]}
    \cup {[kind |-> "object", items |-> <<c>>] : c \in BatchPool}
    \cup {Array(cs) : cs \in FilesOver(BatchPool, MaxBatch)}
    \cup {Array(<<c>>) : c \in ExtraPool}
    \cup {Array(<<c, FnChg(PathJs, "delete", Missing)>>) : c \in ExtraPool}

BatchText == <<<<"function", " ", "f", "(", "{">>, <<" ", "x">>, <<"}">>, <<"x">>>>

\* the state in which apply_function_level_changes is entered
Start(d, r, sep) ==
    /\ disk = d
    /\ root = r
    /\ linesep = sep
    /\ pc = "start"
    /\ idx = 1
    /\ lines = <<>>
    /\ updated = <<>>
    /\ orig = d
    /\ hist = <<>>
    /\ snap = <<>>
    /\ DownloadIdle

InitPy ==
    \E b \in FilesOver(PyPool, MaxLines), c \in PyChanges :
        Start((PathPy :> TextFile(Join(b, LF))) @@ BaseDisk, Runs(c), LF)

InitBrace ==
    \E b \in FilesOver(BracePool, MaxLines), c \in BraceChanges :
        Start((PathJs :> TextFile(Join(b, LF))) @@ BaseDisk, Runs(c), LF)

InitLine ==
    \E b \in FilesOver(LinePool, MaxLines), c \in LineChanges :
        Start((PathJs :> TextFile(Join(b, LF))) @@ BaseDisk, Runs(c), LF)

InitBatch ==
    \E t \in {LF, CRLF}, sep \in {LF, CRLF}, r \in BatchRoots :
        Start((PathJs :> TextFile(Join(BatchText, t))) @@ BaseDisk, r, sep)

\* code of two terminated lines; in CodeDeco the last one is a decorator line
CodeTerm == Str(<<"y", "\n", "z", "\n">>)
CodeDeco == Str(<<"y", "\n", "@", "c", "\n">>)

\* 'insert before' on f followed by 'delete' of f
InsertThenDelete(path, code) ==
    Array(<<FnChg(path, "insert before", code), FnChg(path, "delete", Missing)>>)

InitRoundTripJs ==
    \E b \in FilesOver(BracePool, MaxLines) :
        Start((PathJs :> TextFile(Join(b, LF))) @@ BaseDisk,
              InsertThenDelete(PathJs, CodeTerm), LF)

InitRoundTripPy ==
    \E b \in FilesOver(PyPool, MaxLines), code \in {CodeTerm, CodeDeco} :
        Start((PathPy :> TextFile(Join(b, LF))) @@ BaseDisk,
              InsertThenDelete(PathPy, code), LF)

\* changes without code ("code" missing, null or ""), and a 'delete' with code
NoCodeChanges(path) ==
    { FnChg(path, a, c) : a \in {"insert before", "insert after", "replace"},
                          c \in {Missing, Null} }
    \cup { FnChg(path, "replace", Str(<<>>)), FnChg(path, "delete", CodeTwo) }

NoCodeLineChanges ==
    { LnChg(PathJs, NoRef, a, c) : a \in {"insert before", "insert after", "replace"},
                                   c \in {Missing, Null} }
    \cup { LnChg(PathJs, NoRef, "replace", Str(<<>>)) }

InitNoCodePy ==
    \E b \in FilesOver(PyPool, MaxLines - 1), c \in NoCodeChanges(PathPy) :
        Start((PathPy :> TextFile(Join(b, LF))) @@ BaseDisk, Array(<<c>>), LF)

InitNoCodeJs ==
    \E b \in FilesOver(BracePool, MaxLines - 1), c \in NoCodeChanges(PathJs) :
        Start((PathJs :> TextFile(Join(b, LF))) @@ BaseDisk, Array(<<c>>), LF)

InitNoCodeLine ==
    \E b \in FilesOver(LinePool, MaxLines - 1), c \in NoCodeLineChanges :
        Start((PathJs :> TextFile(Join(b, LF))) @@ BaseDisk, Array(<<c>>), LF)

Init ==
    \/ InitLine \/ InitBrace \/ InitPy \/ InitBatch \/ InitRoundTripJs \/ InitRoundTripPy
    \/ InitNoCodePy \/ InitNoCodeJs \/ InitNoCodeLine

Spec == Init /\ [][Next]_vars

\* largest max_retries of the download runs
MaxRetries == 2

\* download_github_repo is entered; apply_function_level_changes is not running
InitDownload ==
    /\ disk = BaseDisk
    /\ root = Array(<<>>)
    /\ linesep = LF
    /\ pc = "idle"
    /\ idx = 1
    /\ lines = <<>>
    /\ updated = <<>>
    /\ orig = BaseDisk
    /\ hist = <<>>
    /\ snap = <<>>
    /\ max_retries \in 0..MaxRetries
    /\ dpc = "branch"
    /\ bidx = 1
    /\ attempt = 0
    /\ zip_content = None
    /\ extraction \in {"absent", "empty"}
    /\ log = <<>>

SpecDownload == InitDownload /\ [][NextDownload]_vars

---------------------------------------------------------------------------
(* Vocabulary of the properties *)

\* the disk before the k-th element of the array was processed
Before(k) == IF k = 1 THEN orig ELSE snap[k - 1]

\* c is a change object that reaches the read of an existing text file in disk d
Readable(d, c) ==
    /\ c.kind = "dict"
    /\ HasRequiredKeys(c)
    /\ ~FieldRaises(c)
    /\ Exists(d, c)
    /\ d[c.file.v].kind = "text"

FnLevel(c) == Truthy(c.functionName) /\ c.functionName.t = "str"

LineLevel(c) == ~Truthy(c.functionName) /\ Truthy(c.lineCode) /\ c.lineCode.t = "str"

IsPy(c) == FnLevel(c) /\ splitext1(c.file.v) = ".py"

IsBrace(c) == FnLevel(c) /\ splitext1(c.file.v) \in {".php", ".js"}

ActionOf(c) == lower(c.action.v[1])

\* the target of c is found in the buffer ls
Located(ls, c) ==
    \/ IsPy(c) /\ PyDefIdx(ls, c.functionName.v) # -1
    \/ IsBrace(c) /\ BraceStart(ls, c.functionName) # -1
    \/ LineLevel(c) /\ MatchingIndices(ls, c.lineCode.v) # {}

\* no line of the buffer ls matches the functionName / lineCode of c
NoMatch(ls, c) ==
    \/ IsPy(c) /\ PyDefIdx(ls, c.functionName.v) = -1
    \/ IsBrace(c) /\ BraceStart(ls, c.functionName) = -1
    \/ LineLevel(c) /\ MatchingIndices(ls, c.lineCode.v) = {}

\* the span [start, end] the handler resolves for a located target
SpanStart(ls, c) ==
    IF IsPy(c) THEN PyStart(ls, c.functionName.v)
    ELSE IF IsBrace(c) THEN BraceStart(ls, c.functionName)
    ELSE ClosestIdx(MatchingIndices(ls, c.lineCode.v), c.lineNumber)

SpanEnd(ls, c) ==
    IF IsPy(c) THEN PyEnd(ls, PyStart(ls, c.functionName.v))
    ELSE IF IsBrace(c) THEN BraceEnd(ls, BraceStart(ls, c.functionName))
    ELSE ClosestIdx(MatchingIndices(ls, c.lineCode.v), c.lineNumber)

FourActions == {"insert before", "insert after", "delete", "replace"}

---------------------------------------------------------------------------
(* C1 *)

\* end of a Python function as section 4.2 of the specification walks it: forward
\* from the definition line, up to the line before the first non-blank line
\* indented no deeper than the definition line that is no decorator
BodyEndFromDef(ls, def_idx) ==
    LET S == {j \in (def_idx + 1)..(Len(ls) - 1) :
                 /\ Strip(At(ls, j)) # <<>>
                 /\ Indent(At(ls, j)) <= Indent(At(ls, def_idx))
                 /\ ~StartsWith(Strip(At(ls, j)), <<"@">>)}
    IN IF S = {} THEN Len(ls) - 1
       ELSE (CHOOSE j \in S : \A k \in S : j <= k) - 1

\* C1: deleting a decorated Python function removes its decorator lines, its
\* def line and its indented body as one unit and keeps the lines after the body.
C1_DecoratedDeleteRemovesUnit ==
    (/\ pc = "write"
     /\ IsPy(change)
     /\ ActionOf(change) = "delete"
     /\ PyDefIdx(lines, change.functionName.v) # -1
     /\ decorator_start(lines, change.functionName.v) # -1)
    => updated =
         Slice(lines, 0, decorator_start(lines, change.functionName.v))
         \o Slice(lines,
                  BodyEndFromDef(lines, PyDefIdx(lines, change.functionName.v)) + 1,
                  Len(lines))

---------------------------------------------------------------------------
(* C2 *)

\* C2: for each of the four actions and each target kind, the lines before the
\* resolved span and the lines after it are in the output buffer unchanged and
\* in order, the former at the same indices, the latter at the end.
C2_FramePreserved ==
    (/\ pc = "write"
     /\ ActionOf(change) \in FourActions
     /\ Located(lines, change))
    => LET s == SpanStart(lines, change)
           e == SpanEnd(lines, change)
           n == Len(lines)
           m == Len(updated)
       IN /\ m >= s + (n - 1 - e)
          /\ Slice(updated, 0, s) = Slice(lines, 0, s)
          /\ Slice(updated, m - (n - 1 - e), m) = Slice(lines, e + 1, n)

C2_Witness ==
    /\ pc = "write"
    /\ ActionOf(change) = "replace"
    /\ IsBrace(change)
    /\ Located(lines, change)
    /\ SpanStart(lines, change) > 0
    /\ SpanEnd(lines, change) < Len(lines) - 1
    /\ SpanEnd(lines, change) > SpanStart(lines, change)
    /\ updated # lines

---------------------------------------------------------------------------
(* C3 *)

\* C3: the target file is opened for writing only for a change whose target
\* was resolved in the buffer read for it.
C3_WriteOnlyWhenResolved ==
    \A i \in 1..Len(hist) :
        hist[i].op = "write"
        => Located(readlines(hist[i - 1].data), changes[hist[i].k])

---------------------------------------------------------------------------
(* C4 *)

\* C4: a change whose functionName or lineCode matches no line of its file
\* leaves every byte of that file as it was before the change was processed.
C4_NoMatchKeepsFile ==
    \A k \in 1..Len(snap) :
        (/\ Readable(Before(k), changes[k])
         /\ NoMatch(readlines(DataOf(Before(k), changes[k].file.v)), changes[k]))
        => snap[k] = Before(k)

---------------------------------------------------------------------------
(* C5 *)

\* C5: when the change set does not parse or its root is no array, no file is
\* read or written and the run ends.
C5_MalformedTouchesNothing ==
    root.kind # "array"
    => /\ hist = <<>>
       /\ disk = orig
       /\ pc \in {"start", "done"}

C5_Witness == pc = "done" /\ root.kind = "object" /\ root.items # <<>>

---------------------------------------------------------------------------
(* C6 *)

\* C6: once the change set has parsed as an array, no exception leaves
\* apply_function_level_changes.
C6_NoExceptionEscapes == pc # "raised"

---------------------------------------------------------------------------
(* C7 *)

\* the latest write to `file` among the first i - 1 events, 0 if there is none
LastWrite(i, file) ==
    LET S == {j \in 1..(i - 1) : hist[j].op = "write" /\ hist[j].file = file}
    IN IF S = {} THEN 0 ELSE CHOOSE j \in S : \A l \in S : l <= j

\* C7: changes are handled in array order, a write belongs to the change just
\* read, and every read of a file returns what the latest earlier write of the
\* run left in it (the original content only if no earlier change wrote it).
C7_ReadsSeeEarlierWrites ==
    /\ \A i \in 1..Len(hist) : \A j \in 1..Len(hist) :
           i < j => hist[i].k <= hist[j].k
    /\ \A i \in 1..Len(hist) :
           hist[i].op = "write"
           => /\ i > 1
              /\ hist[i - 1].op = "read"
              /\ hist[i - 1].k = hist[i].k
              /\ hist[i - 1].file = hist[i].file
    /\ \A i \in 1..Len(hist) :
           hist[i].op = "read"
           => hist[i].data =
                IF LastWrite(i, hist[i].file) = 0 THEN orig[hist[i].file].data
                ELSE hist[LastWrite(i, hist[i].file)].data

C7_Witness ==
    \E i \in 1..Len(hist) :
        /\ hist[i].op = "read"
        /\ hist[i].k = 2
        /\ LastWrite(i, hist[i].file) # 0
        /\ hist[i].data # orig[hist[i].file].data

---------------------------------------------------------------------------
(* C8 *)

\* the matching index nearest to lineNumber - 1, the earliest on equal distance
Nearest(matching, n) ==
    CHOOSE i \in matching :
        \A j \in matching :
            \/ Abs(i - (n - 1)) < Abs(j - (n - 1))
            \/ Abs(i - (n - 1)) = Abs(j - (n - 1)) /\ i <= j

SeveralMatchesWithNumber ==
    /\ pc = "write"
    /\ LineLevel(change)
    /\ ActionOf(change) \in FourActions
    /\ change.lineNumber.t = "num"
    /\ Cardinality(MatchingIndices(lines, change.lineCode.v)) > 1

\* C8: with several matching lines and a lineNumber, the change is applied at
\* the matching index nearest to lineNumber - 1 (the earliest on a tie), and
\* every other line, matching or not, stays.
C8_NearestMatchTargeted ==
    SeveralMatchesWithNumber
    => LET b == Nearest(MatchingIndices(lines, change.lineCode.v),
                        change.lineNumber.n)
       IN /\ updated = LineAction(lines, b, ActionOf(change), change.code).lines
          /\ Slice(updated, 0, b) = Slice(lines, 0, b)
          /\ ActionOf(change) = "delete"
             => updated = Slice(lines, 0, b) \o Slice(lines, b + 1, Len(lines))

C8_Witness ==
    /\ SeveralMatchesWithNumber
    /\ ActionOf(change) = "delete"
    /\ LET M == MatchingIndices(lines, change.lineCode.v)
       IN /\ Nearest(M, change.lineNumber.n) # Head(Ascending(M))
          /\ \E i \in M : \E j \in M :
                /\ i < j
                /\ Abs(i - (change.lineNumber.n - 1)) = Abs(j - (change.lineNumber.n - 1))

---------------------------------------------------------------------------
(* C9 *)

\* the buffer the k-th change is applied to
BufferBefore(k) == readlines(DataOf(Before(k), changes[k].file.v))

\* the k-th change repeats the (k-1)-th, a 'delete' that found its target and
\* was written
RepeatsSuccessfulDelete(k) ==
    /\ changes[k] = changes[k - 1]
    /\ Readable(Before(k - 1), changes[k])
    /\ HasTarget(changes[k])
    /\ ActionOf(changes[k]) = "delete"
    /\ Located(BufferBefore(k - 1), changes[k])

---------------------------------------------------------------------------
(* C10 *)

FunctionFound ==
    /\ pc = "write"
    /\ \/ IsPy(change) /\ PyDefIdx(lines, change.functionName.v) # -1
       \/ IsBrace(change) /\ BraceStart(lines, change.functionName) # -1

\* C10: the span either function locator computes for a function it found
\* lies within the file and is not empty: 0 <= start <= end < len(lines).
C10_SpanWithinFile ==
    FunctionFound
    => /\ 0 <= SpanStart(lines, change)
       /\ SpanStart(lines, change) <= SpanEnd(lines, change)
       /\ SpanEnd(lines, change) < Len(lines)

\* a function on the last line whose braces never close
C10_Witness ==
    /\ FunctionFound
    /\ IsBrace(change)
    /\ SpanStart(lines, change) = Len(lines) - 1
    /\ Len(lines) > 1
    /\ Count(At(lines, Len(lines) - 1), "{") > Count(At(lines, Len(lines) - 1), "}")

---------------------------------------------------------------------------
(* C11 *)

\* opening braces minus closing braces on the lines first..j of ls
RECURSIVE BraceBalance(_, _, _)
BraceBalance(ls, first, j) ==
    IF j < first THEN 0
    ELSE BraceBalance(ls, first, j - 1)
         + Count(At(ls, j), "{") - Count(At(ls, j), "}")

\* opening braces on the lines first..j of ls
RECURSIVE OpensUpTo(_, _, _)
OpensUpTo(ls, first, j) ==
    IF j < first THEN 0
    ELSE OpensUpTo(ls, first, j - 1) + Count(At(ls, j), "{")

\* first line at or after start_idx that holds an opening brace, Len(ls) if none
FirstOpen(ls, start_idx) ==
    LET S == {j \in start_idx..(Len(ls) - 1) : Count(At(ls, j), "{") > 0}
    IN IF S = {} THEN Len(ls) ELSE CHOOSE j \in S : \A k \in S : j <= k

\* line e closes the outer brace of the function starting at start_idx, whose
\* braces are balanced and whose body holds a nested pair
OuterClose(ls, start_idx, e) ==
    LET o == FirstOpen(ls, start_idx)
    IN /\ o <= e
       /\ e < Len(ls)
       /\ BraceBalance(ls, o, e) = 0
       /\ \A j \in o..(e - 1) : BraceBalance(ls, o, j) > 0
       /\ OpensUpTo(ls, o, e) >= 2

\* C11: for a brace-delimited function with balanced braces and a nested brace
\* pair in its body, the located end is the line of the outer closing brace.
C11_NestedPairEndsAtOuterClose ==
    (FunctionFound /\ IsBrace(change))
    => \A e \in 0..(Len(lines) - 1) :
           OuterClose(lines, SpanStart(lines, change), e)
           => SpanEnd(lines, change) = e

\* signature line, inner opening line, inner closing line, outer closing line
C11_Witness ==
    /\ FunctionFound
    /\ IsBrace(change)
    /\ Len(lines) = 4
    /\ SpanStart(lines, change) = 0
    /\ OuterClose(lines, 0, 3)
    /\ Count(At(lines, 2), "}") = 1
    /\ SpanEnd(lines, change) = 3

---------------------------------------------------------------------------
(* C12 *)

Terminated(line) == line # <<>> /\ line[Len(line)] \in {"\n", "\r"}

InsertingActions == {"insert before", "insert after", "replace"}

\* an inserting action with non-empty code found its target
InsertsCode ==
    /\ pc = "write"
    /\ Located(lines, change)
    /\ ActionOf(change) \in InsertingActions
    /\ change.code.t = "str"
    /\ change.code.v # <<>>

\* index in the updated buffer of the first inserted line
InsertedAt ==
    IF ActionOf(change) = "insert after" THEN SpanEnd(lines, change) + 1
    ELSE SpanStart(lines, change)

\* C12: the last line an inserting action inserts ends with a line terminator,
\* also when the code given ends without one, so that the written file keeps
\* the inserted text and the line after it on separate lines.
C12_LastInsertedLineTerminated ==
    InsertsCode
    => /\ Terminated(At(updated, InsertedAt + Len(splitlines(change.code.v)) - 1))
       /\ Len(readlines(writelines(updated, linesep))) = Len(updated)

---------------------------------------------------------------------------
(* C13 *)

\* the field is given with a value other than null and the empty string
Given(v) == v.t \notin {"missing", "null"} /\ v.v # <<>>

\* the k-th change wrote its file
Written(k) == \E i \in 1..Len(hist) : hist[i].op = "write" /\ hist[i].k = k

\* the content of the file of the k-th change after the change
DataAfter(k) == snap[k][changes[k].file.v].data

FunctionLevelData(k) ==
    writelines(apply_function_level_change(BufferBefore(k), changes[k].functionName,
                                           ActionOf(changes[k]), changes[k].code,
                                           splitext1(changes[k].file.v)).lines,
               linesep)

LineLevelData(k) ==
    writelines(apply_line_level_change(BufferBefore(k), ActionOf(changes[k]),
                                       changes[k].code, changes[k].lineCode,
                                       changes[k].lineNumber).lines,
               linesep)

\* C13: a descriptor with a functionName is applied by function-level targeting
\* whatever its lineCode; one without functionName but with a lineCode is
\* applied by line-level targeting; one with neither is skipped and its file
\* is not written.
C13_OneFieldDrivesTargeting ==
    \A k \in 1..Len(snap) :
        Readable(Before(k), changes[k])
        => /\ Given(changes[k].functionName)
              => Written(k) /\ DataAfter(k) = FunctionLevelData(k)
           /\ (~Given(changes[k].functionName) /\ Given(changes[k].lineCode))
              => Written(k) /\ DataAfter(k) = LineLevelData(k)
           /\ (~Given(changes[k].functionName) /\ ~Given(changes[k].lineCode))
              => ~Written(k) /\ snap[k] = Before(k)

\* both fields given, and the two kinds of targeting would differ
C13_Witness ==
    /\ Len(snap) >= 1
    /\ Readable(orig, changes[1])
    /\ Given(changes[1].functionName)
    /\ Given(changes[1].lineCode)
    /\ Written(1)
    /\ DataAfter(1) # orig[changes[1].file.v].data
    /\ FunctionLevelData(1) # LineLevelData(1)

---------------------------------------------------------------------------
(* C14 *)

PythonData(k) ==
    writelines(apply_python_function_change(BufferBefore(k), changes[k].functionName,
                                            ActionOf(changes[k]), changes[k].code).lines,
               linesep)

BraceData(k) ==
    writelines(apply_brace_delimited_function_change(BufferBefore(k),
                                                     changes[k].functionName,
                                                     ActionOf(changes[k]),
                                                     changes[k].code).lines,
               linesep)

\* C14: a descriptor with functionName is applied by the indentation-delimited
\* locator for a .py file and by the brace-delimited locator for a .js or .php
\* file; for any other extension it is skipped and the content of the file
\* stays as it was.
C14_LocatorByExtension ==
    \A k \in 1..Len(snap) :
        (Readable(Before(k), changes[k]) /\ FnLevel(changes[k]))
        => /\ splitext1(changes[k].file.v) = ".py" => DataAfter(k) = PythonData(k)
           /\ splitext1(changes[k].file.v) \in {".js", ".php"}
              => DataAfter(k) = BraceData(k)
           /\ splitext1(changes[k].file.v) \notin {".py", ".js", ".php"}
              => snap[k] = Before(k)

---------------------------------------------------------------------------
(* C15 *)

\* some change object of the JSON array names the path p in its "file" field
NamedByDescriptor(p) ==
    \E k \in 1..Len(changes) : changes[k].kind = "dict" /\ changes[k].file.v = p

\* C15: a file under the repo root that no descriptor names in its "file"
\* field has the content it had before the run.
C15_UnnamedFilesUntouched ==
    \A p \in DOMAIN disk : ~NamedByDescriptor(p) => disk[p] = orig[p]

\* a run that changed s/c.txt and left the c.txt of the root alone
C15_Witness ==
    /\ pc = "done"
    /\ NamedByDescriptor(PathSub)
    /\ disk[PathSub] # orig[PathSub]
    /\ ~NamedByDescriptor(PathTxt)
    /\ disk[PathTxt] = orig[PathTxt]

---------------------------------------------------------------------------
(* C16 *)

\* the line holds the definition pattern the locator of c searches for
HoldsPattern(line, c) ==
    IF IsPy(c) THEN PyDefMatch(Strip(line), c.functionName.v)
    ELSE Contains(line, BracePattern(c.functionName))

\* the (k-1)-th change is an 'insert before' on a function it found, with code
\* of terminated lines that do not hold the definition pattern, and the k-th
\* change is the 'delete' of the same function in the same file
InsertedThenDeleted(k) ==
    /\ Readable(Before(k - 1), changes[k - 1])
    /\ Readable(Before(k - 1), changes[k])
    /\ IsPy(changes[k]) \/ IsBrace(changes[k])
    /\ changes[k - 1].file = changes[k].file
    /\ changes[k - 1].functionName = changes[k].functionName
    /\ ActionOf(changes[k - 1]) = "insert before"
    /\ ActionOf(changes[k]) = "delete"
    /\ Located(BufferBefore(k - 1), changes[k])
    /\ changes[k - 1].code.t = "str"
    /\ changes[k - 1].code.v # <<>>
    /\ \A i \in 1..Len(splitlines(changes[k - 1].code.v)) :
           /\ Terminated(splitlines(changes[k - 1].code.v)[i])
           /\ ~HoldsPattern(splitlines(changes[k - 1].code.v)[i], changes[k])

\* the 'delete' finds the span of the function moved down by the inserted
\* lines and leaves the original file with that span replaced by them
ShiftedSpanRemoved(k) ==
    LET c == changes[k]
        new == splitlines(changes[k - 1].code.v)
        L0 == BufferBefore(k - 1)
        L1 == BufferBefore(k)
    IN /\ SpanStart(L1, c) = SpanStart(L0, c) + Len(new)
       /\ SpanEnd(L1, c) = SpanEnd(L0, c) + Len(new)
       /\ readlines(DataAfter(k)) =
              Slice(L0, 0, SpanStart(L0, c)) \o new
              \o Slice(L0, SpanEnd(L0, c) + 1, Len(L0))

\* the last line of the inserted code is a decorator line of a Python file
EndsWithDecorator(k) ==
    LET new == splitlines(changes[k - 1].code.v)
    IN IsPy(changes[k]) /\ StartsWith(Strip(new[Len(new)]), <<"@">>)

---------------------------------------------------------------------------
(* C17 *)

\* lines from the first opening brace on at which the running depth is zero
\* or negative
DepthSpent(ls, start_idx) ==
    {j \in FirstOpen(ls, start_idx)..(Len(ls) - 1) :
        BraceBalance(ls, FirstOpen(ls, start_idx), j) <= 0}

\* C17: the end of a brace-delimited function is the first line, scanning from
\* the signature line, at which an opening brace has been seen and the running
\* depth is zero or negative.
C17_EndAtFirstNonPositiveDepth ==
    (FunctionFound /\ IsBrace(change)
       /\ DepthSpent(lines, SpanStart(lines, change)) # {})
    => \A j \in DepthSpent(lines, SpanStart(lines, change)) :
           SpanEnd(lines, change) <= j
           /\ SpanEnd(lines, change) \in DepthSpent(lines, SpanStart(lines, change))

---------------------------------------------------------------------------
(* C18 *)

\* no opening brace at or after start_idx, or the running depth is zero on no
\* line from the first opening brace to the end of the file
NeverCloses(ls, start_idx) ==
    \A j \in FirstOpen(ls, start_idx)..(Len(ls) - 1) :
        BraceBalance(ls, FirstOpen(ls, start_idx), j) # 0

\* C18: when the brace depth of a brace-delimited function never returns to
\* zero before the end of the file, or no opening brace is found, the end of
\* its span is the last line of the file.
C18_UnclosedEndsAtLastLine ==
    (FunctionFound /\ IsBrace(change)
       /\ NeverCloses(lines, SpanStart(lines, change)))
    => SpanEnd(lines, change) = Len(lines) - 1

---------------------------------------------------------------------------
(* C19 *)

\* C19: the span of a Python function ends on the line before the first
\* non-blank line after the def line that is indented no deeper than the def
\* line and starts with no '@', or on the last line of the file when there is
\* none, for a function with decorators as for one without.
C19_WalkStartsAtDefLine ==
    (FunctionFound /\ IsPy(change))
    => SpanEnd(lines, change)
         = BodyEndFromDef(lines, PyDefIdx(lines, change.functionName.v))

---------------------------------------------------------------------------
(* C20 *)

\* a 'replace' with non-empty code found its target
ReplacesSpan ==
    /\ pc = "write"
    /\ Located(lines, change)
    /\ ActionOf(change) = "replace"
    /\ change.code.t = "str"
    /\ change.code.v # <<>>

\* the buffer ls without the elements at the indices s..e
WithoutSpan(ls, s, e) == SubSeq(ls, 1, s) \o SubSeq(ls, e + 2, Len(ls))

\* the elements of new put into ls in front of index s
InsertedInto(ls, s, new) == SubSeq(ls, 1, s) \o new \o SubSeq(ls, s + 1, Len(ls))

---------------------------------------------------------------------------
(* C21 *)

\* a change that found its target, after its handler returned
TargetFound == pc = "write" /\ Located(lines, change)

\* C21: without code ("code" missing or null) 'insert before', 'insert after'
\* and 'replace' return the buffer as it was, for a Python function, a
\* brace-delimited function and a line alike; 'delete' removes the span
\* whether or not code is given.
C21_NoCodeNoChange ==
    TargetFound
    => /\ (ActionOf(change) \in InsertingActions /\ IsNone(change.code))
          => updated = lines
       /\ ActionOf(change) = "delete"
          => updated = WithoutSpan(lines, SpanStart(lines, change),
                                   SpanEnd(lines, change))

\* 'replace' with "code": null on a brace-delimited function of several lines
C21_Witness ==
    /\ TargetFound
    /\ IsBrace(change)
    /\ ActionOf(change) = "replace"
    /\ change.code.t = "null"
    /\ SpanEnd(lines, change) > SpanStart(lines, change)
    /\ updated = lines

---------------------------------------------------------------------------
(* C22 *)

\* a line-level change after its handler returned
LineChangeApplied == pc = "write" /\ LineLevel(change)

\* indices of the lines matching the lineCode of the change
Matches == MatchingIndices(lines, change.lineCode.v)

FirstMatch == CHOOSE i \in Matches : \A k \in Matches : i <= k

\* the buffer after the action of the change was applied at line i
AppliedAt(i) == LineAction(lines, i, ActionOf(change), change.code).lines

\* C22: with several matching lines and no lineNumber the line-level change is
\* applied at the first matching line; a single matching line is the target
\* whatever the lineNumber; without a matching line the buffer is returned as
\* it was.
C22_FirstMatchWithoutLineNumber ==
    LineChangeApplied
    => /\ (Cardinality(Matches) > 1 /\ change.lineNumber.t = "missing")
          => updated = AppliedAt(FirstMatch)
       /\ Cardinality(Matches) = 1 => updated = AppliedAt(FirstMatch)
       /\ Matches = {} => updated = lines

\* two matching lines, no lineNumber, and the choice between them matters
C22_Witness ==
    /\ LineChangeApplied
    /\ Cardinality(Matches) = 2
    /\ change.lineNumber.t = "missing"
    /\ updated = AppliedAt(FirstMatch)
    /\ \E i \in Matches : updated # AppliedAt(i)

---------------------------------------------------------------------------
(* C23 *)

\* first non-blank line after the def line d that is indented no deeper than
\* it, Len(ls) if there is none
NextStatement(ls, d) ==
    LET S == {j \in (d + 1)..(Len(ls) - 1) :
                 Strip(At(ls, j)) # <<>> /\ Indent(At(ls, j)) <= Indent(At(ls, d))}
    IN IF S = {} THEN Len(ls) ELSE CHOOSE j \in S : \A k \in S : j <= k

\* line n is the first decorator line of a decorated definition
DecoratedDefAt(ls, n) ==
    /\ n < Len(ls)
    /\ \E m \in (n + 1)..(Len(ls) - 1) :
           /\ \A j \in n..(m - 1) : StartsWith(Strip(At(ls, j)), <<"@">>)
           /\ StartsWith(Strip(At(ls, m)), <<"def">>)

\* a 'delete' or 'replace' of an undecorated Python function that is followed
\* by a decorated definition
BeforeDecoratedDef ==
    /\ FunctionFound
    /\ IsPy(change)
    /\ ActionOf(change) \in {"delete", "replace"}
    /\ decorator_start(lines, change.functionName.v) = -1
    /\ DecoratedDefAt(lines, NextStatement(lines, PyDefIdx(lines, change.functionName.v)))

\* C23: deleting or replacing an undecorated Python function leaves the
\* decorator lines of a decorated definition that follows it in the file: they
\* lie after the end of the located span.
C23_NextDecoratorsKept ==
    BeforeDecoratedDef
    => LET n == NextStatement(lines, PyDefIdx(lines, change.functionName.v))
       IN /\ SpanEnd(lines, change) < n
          /\ Len(updated) >= Len(lines) - n
          /\ Slice(updated, Len(updated) - (Len(lines) - n), Len(updated))
               = Slice(lines, n, Len(lines))

---------------------------------------------------------------------------
(* C24 *)

\* C24: 'replace' with "code": "" returns the buffer as it was for a
\* brace-delimited function, a Python function and a line alike; no handler
\* deletes the target.
C24_EmptyCodeReplaceKeepsTarget ==
    (TargetFound /\ ActionOf(change) = "replace"
       /\ change.code.t = "str" /\ change.code.v = <<>>)
    => updated = lines

---------------------------------------------------------------------------
(* C25 *)

\* the responses to the requests issued for branch b, in order
ResponsesFor(b) ==
    LET E == SelectSeq(log, LAMBDA e : e.branch = b)
    IN [i \in 1..Len(E) |-> E[i].response]

\* the responses of the call of fetch_zip that has just returned
ThisCall == ResponsesFor(branches_to_try[bidx])

AllFailed(rs) == \A i \in 1..Len(rs) : ~Accepted(rs[i])

\* C25: a call of fetch_zip issues at most max_retries requests and none
\* after a response with status 200 that looks like a zip; it returns the
\* bytes of that response, and it returns None exactly when max_retries
\* attempts were made and all failed.
C25_FetchZipRetries ==
    /\ \A b \in {"main", "master"} :
           /\ Len(ResponsesFor(b)) <= max_retries
           /\ \A i \in 1..(Len(ResponsesFor(b)) - 1) : ~Accepted(ResponsesFor(b)[i])
    /\ dpc = "check"
       => /\ zip_content = None
             <=> (Len(ThisCall) = max_retries /\ AllFailed(ThisCall))
          /\ zip_content # None
             => /\ ThisCall # <<>>
                /\ Accepted(ThisCall[Len(ThisCall)])
                /\ zip_content = Bytes(ThisCall[Len(ThisCall)].content)

\* a 200 response without zip content, then one recognised by its signature
C25_Witness ==
    /\ dpc = "check"
    /\ max_retries = 2
    /\ Len(ThisCall) = 2
    /\ ThisCall[1].kind = "response"
    /\ ThisCall[1].status_code = 200
    /\ ~Accepted(ThisCall[1])
    /\ ThisCall[2].content_type = <<>>
    /\ zip_content = Bytes(<<"PK34", "entry">>)

---------------------------------------------------------------------------
(* C26 *)

\* every request for 'main' is issued before every request for 'master'
MainFirst ==
    \A i, j \in 1..Len(log) :
        (i < j /\ log[i].branch = "master") => log[j].branch # "main"

\* some response in rs was taken for zip content by fetch_zip
SomeAccepted(rs) == \E i \in 1..Len(rs) : Accepted(rs[i])

\* some response in rs was taken for zip content and has a body that is not empty
SomeContent(rs) == \E i \in 1..Len(rs) : Accepted(rs[i]) /\ rs[i].content # <<>>

\* C26 as claimed: 'main' is requested first and 'master' only after
\* max_retries failed attempts for 'main', never after 'main' returned zip
\* content; when both branches fail nothing is extracted and the call raises;
\* at most 2 * max_retries requests are made.
C26_MasterOnlyAfterMainFailed ==
    /\ MainFirst
    /\ ResponsesFor("master") # <<>>
       => /\ Len(ResponsesFor("main")) = max_retries
          /\ AllFailed(ResponsesFor("main"))
    /\ SomeAccepted(ResponsesFor("main")) => ResponsesFor("master") = <<>>
    /\ (~SomeAccepted(ResponsesFor("main")) /\ ~SomeAccepted(ResponsesFor("master")))
       => /\ dpc \notin {"open", "done"}
          /\ extraction # "extracted"
          /\ dpc = "after" => ~Filled(zip_content)
    /\ Len(log) <= 2 * max_retries

\* C26, amended: 'main' is requested first and 'master' only after the fetch
\* for 'main' ended without zip content that is not empty (max_retries failed
\* attempts, or a response taken for a zip with an empty body), never after
\* 'main' returned such content; when neither branch returns such content
\* nothing is extracted and the call raises; at most 2 * max_retries requests
\* are made.
C26_MasterOnlyAfterMainGaveNothing ==
    /\ MainFirst
    /\ ResponsesFor("master") # <<>>
       => /\ ~SomeContent(ResponsesFor("main"))
          /\ \/ Len(ResponsesFor("main")) = max_retries
             \/ SomeAccepted(ResponsesFor("main"))
    /\ SomeContent(ResponsesFor("main")) => ResponsesFor("master") = <<>>
    /\ (~SomeContent(ResponsesFor("main")) /\ ~SomeContent(ResponsesFor("master")))
       => /\ dpc \notin {"open", "done"}
          /\ extraction # "extracted"
          /\ dpc = "after" => ~Filled(zip_content)
    /\ Len(log) <= 2 * max_retries

\* two failed attempts for 'main', then 'master' downloaded and extracted
C26_Witness ==
    /\ dpc = "done"
    /\ max_retries = 2
    /\ Len(ResponsesFor("main")) = 2
    /\ AllFailed(ResponsesFor("main"))
    /\ Len(ResponsesFor("master")) = 1
    /\ SomeContent(ResponsesFor("master"))
    /\ extraction = "extracted"

=============================================================================
